---- MODULE Spec2Model ----
(***************************************************************************)
(* Model of deerlab.snlls (src/deerlab/snlls.py): the separable non-linear  *)
(* least-squares solver.  One call of snlls() is a behaviour: the argument  *)
(* values are fixed in the initial state, and the body of the function is   *)
(* cut into the steps setup -> bounds -> linear solver -> multi-start loop  *)
(* (the outer solver calling back into ResidualsFcn) -> selection of the    *)
(* global minimum -> uncertainty analysis -> return -> ci() queries.        *)
(*                                                                         *)
(* Numerical collaborators that are not part of the file (Amodel, the       *)
(* linear solvers, selregparam, least_squares, jacobianest, hccm, uqst) are *)
(* black boxes: their results are symbolic terms that record what they were *)
(* computed from, and the outer solver is a nondeterministic sequence of    *)
(* callbacks.                                                               *)
(***************************************************************************)
EXTENDS Integers, Sequences, FiniteSets, TLC

\* ------------------------------------------------------------------ bounds
\* Largest number of multi-start attempts explored.
MaxStarts == 2
\* Largest function-evaluation budget (max_nfev) of one least_squares call.
MaxNfev == 2
\* Number of columns of Amodel(p) (M) and number of data points (N).
NumLin == 2
NumData == 3

\* --------------------------------------------------------- program values
\* np.inf; -np.inf is -Inf.  Every finite value of the model is below it.
Inf == 1000000
\* Threshold on cond(A0) above which A0 counts as ill-conditioned.
CondThreshold == 10
\* Default of the regOrder argument.
regOrderDefault == 2
\* Default of alphaOptThreshold is 1e-3 = 1 / ThresholdDen.
ThresholdDen == 1000

None == "None"
\* The value python leaves in a name that was never assigned.
Unbound == "unbound"
\* python truthiness of None / True / False.
Truthy(v) == v = "True"

\* Values a non-linear parameter takes in the model.
ParVals == {1000, 2000, 2001}
\* Start vectors par0 (their length is W = Nnonlin).
Par0Inputs == {<<1000>>, <<2000>>}

Fill(n, v) == [i \in 1..n |-> v]
isinf(v) == v = Inf \/ v = -Inf
Abs(v) == IF v < 0 THEN -v ELSE v
Min(a, b) == IF a < b THEN a ELSE b

RECURSIVE SeqSum(_)
SeqSum(s) == IF s = << >> THEN 0 ELSE Head(s) + SeqSum(Tail(s))

\* Argument values of the bound vectors for a problem with n parameters:
\* empty (defaulted), all infinite, finite, and one of the wrong length.
LbInputs(n) ==
    {<< >>, Fill(n, -Inf), Fill(n, 1000), Fill(n, 2001), Fill(n + 1, 1000)}
UbInputs(n) ==
    {<< >>, Fill(n, Inf), Fill(n, 2001), Fill(n, 1000), Fill(n + 1, 2001)}
LblInputs(n) ==
    {<< >>, Fill(n, -Inf), Fill(n, 0), Fill(n, 1), Fill(n + 1, 0)}
UblInputs(n) ==
    {<< >>, Fill(n, Inf), Fill(n, 0), Fill(n + 1, Inf)}

\* A string argument: its text and whether it is the very object of the
\* literal the code compares it with (the code compares strings with `is`).
StrArg(s, lit) == [str |-> s, literal |-> lit]
NnlsInputs ==
    {StrArg("cvx", TRUE), StrArg("fnnls", TRUE), StrArg("nnlsbpp", TRUE),
     StrArg("fnnls", FALSE), StrArg("simplex", FALSE)}
RegtypeInputs ==
    {StrArg("tikhonov", TRUE), StrArg("tv", TRUE), StrArg("huber", TRUE),
     StrArg("tikhonov", FALSE), StrArg("lasso", FALSE)}
\* regparam: a selection method (a string) or a fixed scalar.
RegparamArg(isstr, m, v) == [isstr |-> isstr, method |-> m, value |-> v]
RegparamInputs == {RegparamArg(TRUE, "aic", 0), RegparamArg(FALSE, "", 3)}
\* penalty: None (decide from the conditioning), True or False.
PenaltyInputs == {None, "True", "False"}
CondInputs == {5, 10, 11}
Coverages == {50, 95}

VARIABLES
    \* arguments of snlls
    par0, lb, ub, lbl, ubl, nnlsSolver, penalty, regtype, regparam,
    multiStarts, uqanalysis, condA0,
    \* locals of snlls
    Nnonlin, Nlin, includePenalty, L, linSolver,
    check, regparam_prev, par_prev, linfit,
    multiStartPar0, fvals, nonlinfits, linfits,
    globmin, nonlinfit, yfit, covmatrix, paramuq, stats,
    \* the vector res returned by the last call of ResidualsFcn, and where
    \* alpha came from in that call (did it call selregparam, and for which
    \* vector was regparam_prev selected)
    res, origin,
    \* the least_squares call in progress
    sol,
    \* control: position in snlls, raised exception, returned tuple,
    \* collaborators called so far, result of the last ci() query
    pc, err, ret, called, paramci

args == <<lb, ub, lbl, ubl, nnlsSolver, penalty, regtype, regparam,
          multiStarts, uqanalysis, condA0>>
evaluator == <<check, regparam_prev, par_prev, linfit, res, origin>>
containers == <<multiStartPar0, fvals, nonlinfits, linfits>>
outcome == <<globmin, nonlinfit, yfit, covmatrix, paramuq, stats>>
setup == <<Nnonlin, Nlin, includePenalty, L, linSolver>>

vars == <<par0, args, setup, evaluator, containers, outcome, sol,
          pc, err, ret, called, paramci>>

\* ------------------------------------------------------- symbolic values
\* Entry k of the solution of the linear subproblem built from Amodel(p)
\* with regularization parameter alpha.
LinEntry(p, alpha, k) == [at |-> p, alpha |-> alpha, k |-> k]
\* np.zeros(n)
zeros(n) == [k \in 1..n |-> LinEntry(<< >>, 0, k)]
\* Afit @ linfit
ModelFit(p, x) == [A |-> p, x |-> x]
\* paramuq = []
EmptyList == [type |-> "list", parfit |-> 0, alpha |-> 0, rows |-> 0]
\* dl.uqst('covariance', parfit, covmatrix, lbs, ubs), with ci replaced
UQObject(nparfit, alpha, rows) ==
    [type |-> "uq", parfit |-> nparfit, alpha |-> alpha, rows |-> rows]
\* An entry of a residual vector: entry `row` of the vector `term`, times
\* `scale`.
ResEntry(term, scale, row) == [term |-> term, scale |-> scale, row |-> row]
\* An entry of a Jacobian: entry (row, col) of the matrix `term`, times
\* `scale`.
JacEntry(term, scale, row, col) ==
    [term |-> term, scale |-> scale, row |-> row, col |-> col]
\* hccm(J, res, 'HC1'), as the arguments it is computed from
Hccm(J, r) == [J |-> J, res |-> r]
\* No call of selregparam yet.
NoOrigin == [selected |-> FALSE, at |-> << >>]
NoSol == [k |-> 0, x |-> << >>, cost |-> 0, nfev |-> 0, jac |-> 0,
          status |-> -1]
NoRet == [returned |-> FALSE, nonlinfit |-> << >>, linfit |-> << >>,
          paramuq |-> EmptyList, stats |-> << >>]

\* ---------------------------------------------------------- initial state
\* The call snlls(y, Amodel, par0, lb, ub, lbl, ubl, ...) has been made and
\* nothing of its body has run.  The calls explored are five families of
\* argument values; each varies one group of arguments over all its values
\* and leaves the others at a standard value.
StdNonlin == par0 = <<1000>> /\ lb = <<1000>> /\ ub = <<2001>>
StdLin == lbl = << >> /\ ubl = << >>
StdPenalty == penalty = None /\ condA0 = 11
StdOptions ==
    /\ nnlsSolver = StrArg("cvx", TRUE)
    /\ regtype = StrArg("tikhonov", TRUE)
    /\ regparam = RegparamArg(TRUE, "aic", 0)

\* every bound vector and the number of starts (more than one start with
\* the standard linear bounds, or where the bounds are refused)
BoundArgs ==
    /\ par0 \in Par0Inputs
    /\ lb \in LbInputs(Len(par0))
    /\ ub \in UbInputs(Len(par0))
    /\ lbl \in LblInputs(NumLin)
    /\ ubl \in UblInputs(NumLin)
    /\ multiStarts \in 1..MaxStarts
    /\ \/ StdNonlin
       \/ StdLin
       \/ Len(lb) \notin {0, Len(par0)} \/ Len(ub) \notin {0, Len(par0)}
       \/ Len(lbl) \notin {0, NumLin} \/ Len(ubl) \notin {0, NumLin}
       \/ (Len(lb) = Len(ub) /\ Len(lb) > 0 /\ \E i \in 1..Len(lb) : ub[i] < lb[i])
       \/ (Len(lbl) = Len(ubl) /\ Len(lbl) > 0 /\ \E i \in 1..Len(lbl) : ubl[i] < lbl[i])
    /\ multiStarts > 1 => (StdLin \/ ~StdNonlin)
    /\ StdPenalty /\ StdOptions
    /\ uqanalysis = TRUE

\* the penalty decision, the kind of regparam, the UQ switch; more than one
\* start with the ill-conditioned A0 and penalty None or False only
PenaltyArgs ==
    /\ StdNonlin /\ StdLin
    /\ penalty \in PenaltyInputs
    /\ condA0 \in CondInputs
    /\ regparam \in RegparamInputs
    /\ uqanalysis \in BOOLEAN
    /\ multiStarts \in 1..MaxStarts
    /\ multiStarts > 1 => (condA0 = 11 /\ penalty # "True")
    /\ nnlsSolver = StrArg("cvx", TRUE)
    /\ regtype = StrArg("tikhonov", TRUE)

\* the non-negative solver name, on a non-negative-only linear problem
NnlsArgs ==
    /\ StdNonlin
    /\ lbl = Fill(NumLin, 0)
    /\ ubl \in {<< >>, Fill(NumLin, Inf)}
    /\ nnlsSolver \in NnlsInputs
    /\ StdPenalty
    /\ regtype = StrArg("tikhonov", TRUE)
    /\ regparam = RegparamArg(TRUE, "aic", 0)
    /\ uqanalysis \in BOOLEAN
    /\ multiStarts = 1

\* the penalty type, with and without a penalty and a UQ stage
RegtypeArgs ==
    /\ StdNonlin /\ StdLin
    /\ regtype \in RegtypeInputs
    /\ penalty \in {"True", "False"}
    /\ condA0 = 11
    /\ nnlsSolver = StrArg("cvx", TRUE)
    /\ regparam = RegparamArg(TRUE, "aic", 0)
    /\ uqanalysis \in BOOLEAN
    /\ multiStarts = 1

\* two non-linear parameters, with bounds infinite in one component only;
\* more than one start is asked for where the call ends before the solver
\* iterates (no finite bound at all, or a component with lb = ub, which
\* least_squares refuses)
TwoParamArgs ==
    /\ par0 = <<1000, 2000>>
    /\ lb \in {<< >>, <<-Inf, 2000>>, <<1000, 2000>>, <<1000>>}
    /\ ub \in {<< >>, <<Inf, 2000>>, <<2000, 2001>>}
    /\ multiStarts \in 1..MaxStarts
    /\ multiStarts > 1 => \/ (lb = << >> /\ ub = << >>)
                          \/ (lb # << >> /\ ub = <<Inf, 2000>>)
    /\ StdLin /\ StdPenalty /\ StdOptions
    /\ uqanalysis = TRUE

\* boxes that hold a negative value, zero, or three values each within
\* alphaOptThreshold of the next (2000, 2001, 2002)
CacheArgs ==
    /\ par0 = <<1000>>
    /\ \E box \in {<< <<-1000>>, <<2001>> >>, << <<0>>, <<2001>> >>,
                    << <<1000>>, <<2002>> >>} :
          lb = box[1] /\ ub = box[2]
    /\ multiStarts = 1
    /\ StdLin /\ StdPenalty /\ StdOptions
    /\ uqanalysis = TRUE

Init ==
    /\ \/ BoundArgs \/ PenaltyArgs \/ NnlsArgs \/ RegtypeArgs
       \/ TwoParamArgs \/ CacheArgs
    /\ Nnonlin = 0 /\ Nlin = 0
    /\ includePenalty = None
    /\ L = [rows |-> 0, op |-> Unbound]
    /\ linSolver = Unbound
    /\ check = FALSE /\ regparam_prev = 0 /\ par_prev = << >>
    /\ linfit = << >>
    /\ res = << >> /\ origin = NoOrigin
    /\ covmatrix = Hccm(<< >>, << >>)
    /\ multiStartPar0 = << >> /\ fvals = << >>
    /\ nonlinfits = << >> /\ linfits = << >>
    /\ globmin = 0 /\ nonlinfit = << >>
    /\ yfit = ModelFit(<< >>, << >>)
    /\ paramuq = EmptyList /\ stats = << >>
    /\ sol = NoSol
    /\ pc = "start" /\ err = "none" /\ ret = NoRet
    /\ called = {}
    /\ paramci = [coverage |-> 0, type |-> "none", rows |-> << >>]

Raise(e) == pc' = "raised" /\ err' = e

\* ------------------------------------------------------------ lines 105-122
\* Problem dimensions from A0 = Amodel(par0), and the penalty decision.
\* (variant: an ill-conditioned A0 overrides an explicit penalty=False)
IncludePenalty_IgnoresArgument(illConditioned, pen) ==
    IF illConditioned THEN "True" ELSE pen

IncludePenalty(illConditioned, pen) ==
    IF illConditioned /\ pen = None THEN "True" ELSE pen

ProblemInfo ==
    /\ pc = "start"
    /\ Nnonlin' = Len(par0)
    /\ Nlin' = NumLin
    /\ linfit' = zeros(NumLin)
    /\ includePenalty' = IncludePenalty(condA0 > CondThreshold, penalty)
    /\ pc' = "bounds"
    /\ UNCHANGED <<par0, args, L, linSolver, check, regparam_prev, par_prev,
                   res, origin, containers, outcome, sol, err, ret, called,
                   paramci>>

\* ------------------------------------------------------------ lines 124-149
Default(v, n, fill) == IF Len(v) = 0 THEN Fill(n, fill) ELSE v
\* np.any(a < b) for vectors of the same length
AnyLess(a, b) == \E i \in 1..Len(a) : a[i] < b[i]

\* (variant: the start values are not checked against the box)
BoundsError_NoStartCheck(p0, lo, up, lol, upl, W, M) ==
    IF Len(lo) # W \/ Len(up) # W THEN "DimensionMismatch"
    ELSE IF Len(lol) # M \/ Len(upl) # M THEN "DimensionMismatch"
    ELSE IF AnyLess(up, lo) \/ AnyLess(upl, lol) THEN "InvalidBounds"
    ELSE "none"

BoundsError(p0, lo, up, lol, upl, W, M) ==
    IF Len(lo) # W \/ Len(up) # W THEN "DimensionMismatch"
    ELSE IF Len(lol) # M \/ Len(upl) # M THEN "DimensionMismatch"
    ELSE IF AnyLess(up, lo) \/ AnyLess(upl, lol) THEN "InvalidBounds"
    ELSE IF AnyLess(up, p0) \/ AnyLess(p0, lo) THEN "InvalidBounds"
    ELSE "none"

CheckBounds ==
    /\ pc = "bounds"
    /\ lb' = Default(lb, Nnonlin, -Inf)
    /\ ub' = Default(ub, Nnonlin, Inf)
    /\ lbl' = Default(lbl, Nlin, -Inf)
    /\ ubl' = Default(ubl, Nlin, Inf)
    /\ LET e == BoundsError(par0, lb', ub', lbl', ubl', Nnonlin, Nlin)
       IN  IF e # "none" THEN Raise(e)
           ELSE pc' = "linear" /\ err' = err
    /\ UNCHANGED <<par0, nnlsSolver, penalty, regtype, regparam, multiStarts,
                   uqanalysis, condA0, setup, evaluator, containers, outcome,
                   sol, ret, called, paramci>>


\* ------------------------------------------------------------ lines 153-195
\* all(np.isinf(v))
AllInf(v) == \A i \in 1..Len(v) : isinf(v[i])
Constrained(lo, up) == (~AllInf(lo)) \/ (~AllInf(up))
NonNegativeOnly(lo, up) == (\A i \in 1..Len(lo) : lo[i] = 0) /\ AllInf(up)

\* `arg is 'text'`: true only for the object of that literal.
Is(arg, text) == arg.str = text /\ arg.literal

\* The regularization operator: dl.regoperator(ax, min(Nlin-1, regOrder)),
\* of Nlin - order rows, or the identity when no penalty is included.
RegOperator(include, M) ==
    IF Truthy(include)
    THEN [rows |-> M - Min(M - 1, regOrderDefault), op |-> "regoperator"]
    ELSE [rows |-> M, op |-> "eye"]

\* The if/elif chain that binds linSolver; no branch binds it when the
\* problem is non-negative-only and nnlsSolver matches none of the names.
LinSolverFor(lo, up, nnls) ==
    IF ~Constrained(lo, up) THEN "solve"
    ELSE IF ~NonNegativeOnly(lo, up) THEN "lsq_linear"
    ELSE IF Is(nnls, "fnnls") THEN "fnnls"
    ELSE IF Is(nnls, "nnlsbpp") THEN "nnlsbpp"
    ELSE IF Is(nnls, "cvx") THEN "cvxnnls"
    ELSE Unbound

PrepareLinearSolver ==
    /\ pc = "linear"
    /\ L' = RegOperator(includePenalty, Nlin)
    /\ linSolver' = LinSolverFor(lbl, ubl, nnlsSolver)
    /\ check' = FALSE
    /\ regparam_prev' = 0
    /\ par_prev' = Fill(Len(par0), 0)
    /\ pc' = "multistart"
    /\ UNCHANGED <<par0, args, Nnonlin, Nlin, includePenalty, linfit,
                   res, origin, containers, outcome, sol, err, ret, called,
                   paramci>>

\* ------------------------------------------------------------ lines 253-259
\* The finite bounds of the box [lo, up].
Corners(lo, up) ==
    {v \in {lo[i] : i \in 1..Len(lo)} \cup {up[i] : i \in 1..Len(up)} :
        ~isinf(v)}
\* Vectors of W parameter values inside the box [lo, up]: the values of
\* ParVals and the bounds themselves.
InBox(lo, up) ==
    {p \in [1..Len(lo) -> ParVals \cup Corners(lo, up)] :
        \A i \in 1..Len(lo) : lo[i] <= p[i] /\ p[i] <= up[i]}

\* (variant: the test on the number of starts is off by one)
MultiStartRefused_OffByOne(n, lo, up) == n > 2 /\ ~Constrained(lo, up)

MultiStartRefused(n, lo, up) == n > 1 /\ ~Constrained(lo, up)

\* dl.utils.multistarts(multiStarts, par0, lb, ub): multiStarts start
\* vectors of the box, chosen by the seed generator.
PrepareMultiStart ==
    /\ pc = "multistart"
    /\ IF MultiStartRefused(multiStarts, lb, ub)
       THEN /\ Raise("ConfigurationError")
            /\ UNCHANGED <<multiStartPar0, called>>
       ELSE /\ multiStartPar0' \in [1..multiStarts -> InBox(lb, ub)]
            /\ called' = called \cup {"multistarts"}
            /\ pc' = "loop" /\ err' = err
    /\ fvals' = << >> /\ nonlinfits' = << >> /\ linfits' = << >>
    /\ UNCHANGED <<par0, args, setup, evaluator, outcome, sol, ret, paramci>>


\* ------------------------------------------------------------ lines 197-250
\* all(abs(par_prev - p)/p < alphaOptThreshold): a component p[i] < 0 makes
\* the quotient non-positive, p[i] = 0 makes it inf or nan.
\* (variant: the change is compared with p itself, not with
\* alphaOptThreshold times p)
RelChangeSmall_NoThreshold(prev, p) ==
    \A i \in 1..Len(p) :
        IF p[i] > 0 THEN Abs(prev[i] - p[i]) < p[i]
        ELSE p[i] < 0

RelChangeSmall(prev, p) ==
    \A i \in 1..Len(p) :
        IF p[i] > 0 THEN Abs(prev[i] - p[i]) * ThresholdDen < p[i]
        ELSE p[i] < 0

\* dl.selregparam(y, Amodel(p), ax, regtype, regparam, regorder): the
\* regularization parameter selected for the operator Amodel(p), a
\* non-negative number.
selregparam(p) == Abs(SeqSum(p))

\* (variant: the kind of regparam is not looked at)
Reselects_AnyKind(p) ==
    /\ Truthy(includePenalty)
    /\ ~(check /\ RelChangeSmall(par_prev, p))

\* Does this evaluation call selregparam?
Reselects(p) ==
    /\ Truthy(includePenalty)
    /\ regparam.isstr
    /\ ~(check /\ RelChangeSmall(par_prev, p))

\* alpha of the evaluation at p.
AlphaAt(p) ==
    IF Truthy(includePenalty)
    THEN IF regparam.isstr
         THEN IF Reselects(p) THEN selregparam(p) ELSE regparam_prev
         ELSE regparam.value
    ELSE 0

\* linSolver(AtA, Aty) on the components built from Amodel(p) and alpha.
LinSolve(p, alpha) == [k \in 1..Nlin |-> LinEntry(p, alpha, k)]

\* _augment binds resreg in none of its branches for such a regtype.
AugmentUnbound(rt) ==
    ~(Is(rt, "tikhonov") \/ Is(rt, "tv") \/ Is(rt, "huber"))

\* ------------------------------------------------------------ lines 333-365
\* resreg and Jreg of _augment before the scaling by alpha: the function of
\* L@x that the branch for the penalty type rt computes.
PenaltyTerm(rt) ==
    IF Is(rt, "tikhonov") THEN "L@x"
    ELSE IF Is(rt, "tv") THEN "((L@x)^2+eps)^(1/4)"
    ELSE IF Is(rt, "huber") THEN "sqrt(sqrt((L@x/eta)^2+1)-1)"
    ELSE Unbound
PenaltyJacTerm(rt) ==
    IF Is(rt, "tikhonov") THEN "L"
    ELSE IF Is(rt, "tv") THEN "d/dx ((L@x)^2+eps)^(1/4)"
    ELSE IF Is(rt, "huber") THEN "d/dx sqrt(sqrt((L@x/eta)^2+1)-1)"
    ELSE Unbound

\* np.size(J), J being held as the sequence of its rows ([] is << >>).
size(J) == IF J = << >> THEN 0 ELSE Len(J) * Len(J[1])

\* (variant: an empty Jacobian comes back with the penalty rows)
_augment_AlwaysJacobian(r, J, rt, alpha, Lop, x, eta, W) ==
    LET resreg == [i \in 1..Lop.rows |-> ResEntry(PenaltyTerm(rt), alpha, i)]
        Jreg == [i \in 1..Lop.rows |->
                   [c \in 1..(W + Len(x)) |->
                      IF c <= W THEN JacEntry("zeros", 0, i, c)
                      ELSE JacEntry(PenaltyJacTerm(rt), alpha, i, c - W)]]
    IN  [res |-> r \o resreg, J |-> J \o Jreg]

\* _augment(res, J, regtype, alpha, L, x, eta, Nnonlin) for a regtype one
\* of the branches binds: res with alpha*resreg below it, and J, unless it
\* is empty, with the rows [zeros(rows(L), Nnonlin), alpha*Jreg] below it.
_augment(r, J, rt, alpha, Lop, x, eta, W) ==
    LET resreg == [i \in 1..Lop.rows |-> ResEntry(PenaltyTerm(rt), alpha, i)]
        Jreg == [i \in 1..Lop.rows |->
                   [c \in 1..(W + Len(x)) |->
                      IF c <= W THEN JacEntry("zeros", 0, i, c)
                      ELSE JacEntry(PenaltyJacTerm(rt), alpha, i, c - W)]]
    IN  [res |-> r \o resreg,
         J |-> IF size(J) # 0 THEN J \o Jreg ELSE J]

\* ------------------------------------------------------------ lines 239-249
\* res = yfit - y, the data residual of N entries
DataResidual == [i \in 1..NumData |-> ResEntry("A@linfit-y", 1, i)]
\* penalty = alpha*L@linfit (line 244)
PenaltyBlock(alpha) == [i \in 1..L.rows |-> ResEntry("L@x", alpha, i)]
huberparam == "huberparam"

\* The vector ResidualsFcn returns, x being the linear solution and alpha
\* the regularization parameter of the evaluation.
Residual(x, alpha) ==
    IF Truthy(includePenalty)
    THEN _augment(DataResidual \o PenaltyBlock(alpha), << >>, regtype, alpha,
                  L, x, huberparam, Nnonlin).res
    ELSE DataResidual

\* The exception one evaluation of ResidualsFcn ends with, if any.
ResidualsFcnError ==
    IF linSolver = Unbound THEN "NameError"
    ELSE IF Truthy(includePenalty) /\ AugmentUnbound(regtype)
         THEN "UnboundLocalError"
         ELSE "none"

\* 0.5*||res||^2 of the residual returned for p: the data misfit (least at
\* 2000) plus the penalty term.
Cost(p, alpha) ==
    SeqSum([i \in 1..Len(p) |-> Abs(p[i] - 2000)])
        + (IF Truthy(includePenalty) THEN alpha ELSE 0)

\* One call ResidualsFcn(p): what it leaves in the closure variables.
ResidualsFcn(p, caller) ==
    /\ check' = (check \/ Reselects(p))
    /\ par_prev' = IF Truthy(includePenalty) THEN p ELSE par_prev
    /\ regparam_prev' = IF Truthy(includePenalty) THEN AlphaAt(p)
                        ELSE regparam_prev
    /\ linfit' = IF linSolver = Unbound THEN linfit
                 ELSE LinSolve(p, AlphaAt(p))
    /\ res' = IF ResidualsFcnError # "none" THEN res
              ELSE Residual(linfit', AlphaAt(p))
    /\ origin' = IF Reselects(p) THEN [selected |-> TRUE, at |-> p]
                 ELSE [origin EXCEPT !.selected = FALSE]
    /\ called' = called \cup caller \cup {"ResidualsFcn", "lsqcomponents"}
                   \cup (IF Reselects(p) THEN {"selregparam"} ELSE {})
                   \cup (IF linSolver = Unbound THEN {} ELSE {"linSolver"})
                   \cup (IF linSolver # Unbound /\ Truthy(includePenalty)
                         THEN {"_augment:247"} ELSE {})

\* --------------------------------------------------------------- line 264
\* scipy.optimize.least_squares(ResidualsFcn, par0, bounds=(lb,ub),
\* max_nfev, ftol) as the sequence of callbacks it makes: the residual at
\* the start point, then after every accepted point one evaluation per
\* parameter at a perturbed point (the 2-point derivative estimate), and
\* trial points, each accepted when it lowers the cost, until a tolerance is
\* met or max_nfev trial evaluations are used up.
After(next) ==
    IF ResidualsFcnError # "none"
    THEN Raise(ResidualsFcnError) /\ sol' = sol
    ELSE pc' = "solving" /\ err' = err /\ sol' = next

\* least_squares itself refuses bounds with lb[i] >= ub[i] before it
\* evaluates anything.
LeastSquaresStart ==
    /\ pc = "loop"
    /\ Len(fvals) < Len(multiStartPar0)
    /\ par0' = multiStartPar0[Len(fvals) + 1]
    /\ IF \E i \in 1..Len(lb) : lb[i] >= ub[i]
       THEN /\ Raise("ValueError")
            /\ called' = called \cup {"least_squares"}
            /\ UNCHANGED <<evaluator, sol>>
       ELSE /\ ResidualsFcn(par0', {"least_squares"})
            /\ After([k |-> Len(fvals) + 1, x |-> par0',
                      cost |-> Cost(par0', AlphaAt(par0')), nfev |-> 1,
                      jac |-> 1, status |-> -1])
    /\ UNCHANGED <<args, setup, containers, outcome, ret, paramci>>

\* The point of the 2-point derivative estimate for parameter i: x moved
\* by the step h in component i, backwards when x[i] + h leaves the box.
\* (h is one unit of the model's parameter values).
Perturbed(x, i) ==
    [x EXCEPT ![i] = IF x[i] + 1 <= ub[i] THEN x[i] + 1 ELSE x[i] - 1]

LeastSquaresJac ==
    /\ pc = "solving"
    /\ sol.jac \in 1..Len(sol.x)
    /\ ResidualsFcn(Perturbed(sol.x, sol.jac), {})
    /\ After([sol EXCEPT !.jac = IF sol.jac = Len(sol.x) THEN 0
                                 ELSE sol.jac + 1])
    /\ UNCHANGED <<par0, args, setup, containers, outcome, ret, paramci>>

LeastSquaresTrial ==
    /\ pc = "solving"
    /\ sol.jac = 0
    /\ sol.nfev < MaxNfev
    /\ \E p \in InBox(lb, ub) \ {sol.x} :
          /\ ResidualsFcn(p, {})
          /\ LET c == Cost(p, AlphaAt(p))
             IN  After(IF c < sol.cost
                       THEN [sol EXCEPT !.x = p, !.cost = c,
                                        !.nfev = sol.nfev + 1, !.jac = 1]
                       ELSE [sol EXCEPT !.nfev = sol.nfev + 1])
    /\ UNCHANGED <<par0, args, setup, containers, outcome, ret, paramci>>

\* The termination status least_squares may report: positive when a
\* tolerance was met, 0 when max_nfev evaluations were used without that.
Statuses(nfev) == IF nfev >= MaxNfev THEN {0, 1} ELSE {1}

\* What the loop body does with the returned sol (lines 265-267); it reads
\* sol.x and sol.cost, and neither sol.status nor sol.success.
\* (variant: a status-0 result is refused instead of appended)
LeastSquaresReturn_Checked ==
    /\ pc = "solving"
    /\ sol.jac = 0
    /\ \E st \in Statuses(sol.nfev) :
          /\ sol' = [sol EXCEPT !.status = st]
          /\ IF st = 0
             THEN /\ Raise("SolverNonconvergence")
                  /\ UNCHANGED <<nonlinfits, linfits, fvals>>
             ELSE /\ nonlinfits' = Append(nonlinfits, sol.x)
                  /\ linfits' = Append(linfits, linfit)
                  /\ fvals' = Append(fvals, sol.cost)
                  /\ pc' = "loop" /\ err' = err
    /\ UNCHANGED <<par0, args, setup, evaluator, multiStartPar0, outcome,
                   ret, called, paramci>>

LeastSquaresReturn ==
    /\ pc = "solving"
    /\ sol.jac = 0
    /\ \E st \in Statuses(sol.nfev) : sol' = [sol EXCEPT !.status = st]
    /\ nonlinfits' = Append(nonlinfits, sol.x)
    /\ linfits' = Append(linfits, linfit)
    /\ fvals' = Append(fvals, sol.cost)
    /\ pc' = "loop" /\ err' = err
    /\ UNCHANGED <<par0, args, setup, evaluator, multiStartPar0, outcome,
                   ret, called, paramci>>


\* ------------------------------------------------------------ lines 268-273
\* np.argmin: the first index holding the least value (counted from 1).
\* (variant: among equal minima the last one wins)
argmin_Last(f) ==
    CHOOSE i \in 1..Len(f) :
        /\ \A j \in 1..Len(f) : f[i] <= f[j]
        /\ \A j \in (i + 1)..Len(f) : f[j] > f[i]

argmin(f) ==
    CHOOSE i \in 1..Len(f) :
        /\ \A j \in 1..Len(f) : f[i] <= f[j]
        /\ \A j \in 1..(i - 1) : f[j] > f[i]

FindGlobalMinimum ==
    /\ pc = "loop"
    /\ Len(fvals) = Len(multiStartPar0)
    /\ globmin' = argmin(fvals)
    /\ linfit' = linfits[globmin']
    /\ nonlinfit' = nonlinfits[globmin']
    /\ yfit' = ModelFit(nonlinfit', linfit')
    /\ pc' = "uq"
    /\ UNCHANGED <<par0, args, setup, check, regparam_prev, par_prev,
                   res, origin, containers, covmatrix, paramuq, stats, sol,
                   err, ret, called, paramci>>

\* ------------------------------------------------------------ lines 275-319
\* With uqanalysis: jacobianest differentiates p -> Amodel(p)@linfit, not
\* ResidualsFcn; the augmentation of line 288 runs whatever includePenalty
\* is, with regparam_prev as alpha; parfit has Nnonlin + Nlin entries.
\* res = weights*(yfit - y) and J = [Jnonlin, Jlin] (lines 279-285)
WeightedResidual == [i \in 1..NumData |-> ResEntry("weights*(yfit-y)", 1, i)]
DataJacobian ==
    [i \in 1..NumData |->
       [c \in 1..(Nnonlin + Nlin) |->
          IF c <= Nnonlin THEN JacEntry("Jnonlin", 1, i, c)
          ELSE JacEntry("Afit", 1, i, c - Nnonlin)]]

UQEnabledStage ==
    /\ called' = called \cup {"jacobianest", "_augment:288"}
                   \cup (IF AugmentUnbound(regtype) THEN {}
                         ELSE {"hccm", "uqst"})
    /\ IF AugmentUnbound(regtype)
       THEN /\ Raise("UnboundLocalError")
            /\ paramuq' = paramuq /\ covmatrix' = covmatrix
       ELSE LET aug == _augment(WeightedResidual, DataJacobian, regtype,
                                regparam_prev, L, linfit, huberparam,
                                Nnonlin)
            IN  /\ covmatrix' = Hccm(aug.J, aug.res)
                /\ paramuq' = UQObject(Len(nonlinfit) + Len(linfit),
                                       regparam_prev, Len(aug.res))
                /\ pc' = "stats" /\ err' = err

\* Without: paramuq = [] and nothing else.
\* (variant: the Jacobian is estimated before uqanalysis is looked at)
UQSkippedStage_StillEstimates ==
    /\ paramuq' = EmptyList /\ covmatrix' = covmatrix
    /\ pc' = "stats" /\ err' = err
    /\ called' = called \cup {"jacobianest"}

UQSkippedStage ==
    /\ paramuq' = EmptyList /\ covmatrix' = covmatrix
    /\ pc' = "stats" /\ err' = err
    /\ called' = called

UncertaintyAnalysis ==
    /\ pc = "uq"
    /\ IF uqanalysis THEN UQEnabledStage ELSE UQSkippedStage
    /\ UNCHANGED <<par0, args, setup, evaluator, containers, globmin,
                   nonlinfit, yfit, stats, sol, ret, paramci>>

\* ------------------------------------------------------------ lines 320-329
\* goodness_of_fit(y[subset], yfit[subset], Ndof) for the single dataset
goodness_of_fit(fit, Ndof) == [yfit |-> fit, Ndof |-> Ndof]

ReturnResult ==
    /\ pc = "stats"
    /\ stats' = goodness_of_fit(yfit, NumData - Nnonlin)
    /\ ret' = [returned |-> TRUE, nonlinfit |-> nonlinfit, linfit |-> linfit,
               paramuq |-> paramuq, stats |-> stats']
    /\ pc' = "done"
    /\ UNCHANGED <<par0, args, setup, evaluator, containers, globmin,
                   nonlinfit, yfit, covmatrix, paramuq, sol, err, called,
                   paramci>>

\* ------------------------------------------------------------ lines 302-317
\* paramuq_.ci(coverage): one interval (row) per entry of parfit.
FullCI(uq, coverage) ==
    [i \in 1..uq.parfit |-> [coverage |-> coverage, param |-> i]]
\* m[range(n), :]
RowsRange(m, n) == [i \in 1..n |-> m[i]]
\* m[n:, :]
\* (variant: the slice starts one row late)
RowsFrom_OffByOne(m, n) == [i \in 1..(Len(m) - n - 1) |-> m[n + 1 + i]]
RowsFrom(m, n) == [i \in 1..(Len(m) - n) |-> m[n + i]]

ci(uq, coverage, type) ==
    IF type = "nonlin" THEN RowsRange(FullCI(uq, coverage), Nnonlin)
    ELSE IF type = "lin" THEN RowsFrom(FullCI(uq, coverage), Nnonlin)
    ELSE FullCI(uq, coverage)

\* The caller queries the returned object.
QueryCI ==
    /\ pc = "done"
    /\ ret.paramuq.type = "uq"
    /\ \E coverage \in Coverages, type \in {"full", "nonlin", "lin"} :
          paramci' = [coverage |-> coverage, type |-> type,
                      rows |-> ci(ret.paramuq, coverage, type)]
    /\ UNCHANGED <<par0, args, setup, evaluator, containers, outcome, sol,
                   pc, err, ret, called>>

Next ==
    \/ ProblemInfo
    \/ CheckBounds
    \/ PrepareLinearSolver
    \/ PrepareMultiStart
    \/ LeastSquaresStart
    \/ LeastSquaresJac
    \/ LeastSquaresTrial
    \/ LeastSquaresReturn
    \/ FindGlobalMinimum
    \/ UncertaintyAnalysis
    \/ ReturnResult
    \/ QueryCI

Spec == Init /\ [][Next]_vars


\* ======================================================================
\* Properties
\* ======================================================================
PastSetup == pc \notin {"start", "bounds", "linear", "multistart"}
ValidationError == err \in {"DimensionMismatch", "InvalidBounds"}

\* C1: the regularization path is enabled exactly when penalty is True, or
\* penalty is None and cond(A0) > 10; the decision stands from the moment
\* it is made, and every evaluation of the residual function follows it
\* (the objective-only augmentation runs in an evaluation iff it is enabled).
C1_PenaltyDecision ==
    LET enabled == penalty = "True" \/ (penalty = None /\ condA0 > 10)
    IN  /\ pc # "start" => (Truthy(includePenalty) <=> enabled)
        /\ ("linSolver" \in called) =>
              (("_augment:247" \in called) <=> enabled)
        /\ (pc \notin {"start", "bounds", "linear"} /\ ~ValidationError) =>
              ((L.op = "regoperator") <=> enabled)

\* C1 witness: an evaluation ran with the penalty enabled automatically.
C1_Witness ==
    /\ penalty = None /\ condA0 > 10
    /\ "_augment:247" \in called
    /\ sol.nfev >= 2

\* C2: a bound vector of the wrong length ends the call with a dimension
\* mismatch; with all lengths right, ub < lb, ubl < lbl or a start value
\* outside [lb, ub] ends it with an invalid-bounds error; in both cases no
\* collaborator (linear solver, selregparam, least_squares, ...) has been
\* called and nothing is returned.
C2_BoundValidation ==
    LET W == Len(par0)
        badLength == Len(lb) # W \/ Len(ub) # W
                       \/ Len(lbl) # NumLin \/ Len(ubl) # NumLin
        badBounds == \/ \E i \in 1..W : ub[i] < lb[i]
                     \/ \E i \in 1..NumLin : ubl[i] < lbl[i]
                     \/ \E i \in 1..W : par0[i] < lb[i] \/ par0[i] > ub[i]
    IN  pc \notin {"start", "bounds"} =>
          /\ badLength => err = "DimensionMismatch"
          /\ (~badLength /\ badBounds) => err = "InvalidBounds"
          /\ ValidationError =>
                (pc = "raised" /\ called = {} /\ ~ret.returned)
          /\ (~badLength /\ ~badBounds) => ~ValidationError

\* C2 witness: the call was refused for a start value below its lower bound.
C2_Witness ==
    /\ pc = "raised" /\ err = "InvalidBounds"
    /\ Len(lb) = Len(par0)
    /\ \E i \in 1..Len(par0) : par0[i] < lb[i]

\* C3: with multiStarts > 1 and every non-linear bound infinite the call
\* never reaches the seed generator, least_squares or the residual function,
\* and, the bounds being otherwise valid, ends with the configuration error.
C3_MultiStartUnconstrained ==
    (pc \notin {"start", "bounds"} /\ multiStarts > 1
        /\ (\A i \in 1..Len(lb) : lb[i] = -Inf)
        /\ (\A i \in 1..Len(ub) : ub[i] = Inf)) =>
      /\ called \cap {"multistarts", "least_squares", "ResidualsFcn"} = {}
      /\ (PastSetup /\ ~ValidationError) =>
            (pc = "raised" /\ err = "ConfigurationError")

\* C3 witness: the multi-start check refused the call.
C3_Witness ==
    /\ pc = "raised" /\ err = "ConfigurationError"
    /\ multiStarts > 1 /\ called = {}


\* C4 (as claimed): with multiStarts > 1 and some non-linear bound infinite
\* (a lower bound -inf or an upper bound +inf), the bounds being otherwise
\* valid, the call ends with the configuration error and no attempt is run.
C4_Claimed ==
    (PastSetup /\ ~ValidationError /\ multiStarts > 1
        /\ \/ \E i \in 1..Len(lb) : lb[i] = -Inf
           \/ \E i \in 1..Len(ub) : ub[i] = Inf) =>
      /\ pc = "raised" /\ err = "ConfigurationError"
      /\ "least_squares" \notin called

\* C5: for every coverage, ci(.,'nonlin') is rows [0,W) and ci(.,'lin') is
\* rows [W,W+M) of ci(.,'full'): disjoint, and stacked they give the full
\* matrix; a query made of the returned object answers accordingly.
C5_CISlices ==
    (pc = "done" /\ ret.paramuq.type = "uq") =>
      LET W == Len(ret.nonlinfit)
          M == Len(ret.linfit)
      IN  /\ \A c \in Coverages :
                LET full == ci(ret.paramuq, c, "full")
                    nonlin == ci(ret.paramuq, c, "nonlin")
                    lin == ci(ret.paramuq, c, "lin")
                IN  /\ Len(full) = W + M
                    /\ nonlin = SubSeq(full, 1, W)
                    /\ lin = SubSeq(full, W + 1, W + M)
                    /\ nonlin \o lin = full
                    /\ {nonlin[i].param : i \in 1..Len(nonlin)}
                         \cap {lin[i].param : i \in 1..Len(lin)} = {}
          /\ paramci.type = "nonlin" =>
                paramci.rows = SubSeq(FullCI(ret.paramuq, paramci.coverage), 1, W)
          /\ paramci.type = "lin" =>
                paramci.rows = SubSeq(FullCI(ret.paramuq, paramci.coverage),
                                      W + 1, W + M)

\* C5 witness: the linear-parameter intervals of a fit with two non-linear
\* parameters were queried.
C5_Witness ==
    /\ pc = "done" /\ paramci.type = "lin"
    /\ Len(ret.nonlinfit) = 2
    /\ Len(paramci.rows) = NumLin

\* C6: once the loop has run, all multiStarts attempts are recorded, and the
\* non-linear and linear vectors kept (and returned) are those of one and
\* the same attempt: the first attempt, in run order, of least cost.
C6_GlobalMinimum ==
    globmin > 0 =>
      /\ Len(fvals) = multiStarts
      /\ Len(nonlinfits) = multiStarts /\ Len(linfits) = multiStarts
      /\ globmin \in 1..multiStarts
      /\ \A j \in 1..multiStarts : fvals[globmin] <= fvals[j]
      /\ \A j \in 1..(globmin - 1) : fvals[j] > fvals[globmin]
      /\ nonlinfit = nonlinfits[globmin]
      /\ linfit = linfits[globmin]
      /\ ret.returned =>
            (ret.nonlinfit = nonlinfits[globmin] /\ ret.linfit = linfits[globmin])

\* C6 witness: two attempts ended at different points with equal cost, and
\* the first was returned.
C6_Witness ==
    /\ pc = "done" /\ Len(fvals) = 2
    /\ fvals[1] = fvals[2] /\ nonlinfits[1] # nonlinfits[2]
    /\ ret.nonlinfit = nonlinfits[1]

\* C7 (as claimed): the linear snapshot recorded for an attempt is the
\* solution of the linear subproblem at that attempt's sol.x.
C7_Claimed ==
    \A k \in 1..Len(linfits) :
        \A i \in 1..Len(linfits[k]) : linfits[k][i].at = nonlinfits[k]

\* C8: with uqanalysis off the UQ stage calls none of its collaborators and
\* paramuq is the empty list; whatever uqanalysis is, the returned vectors
\* and statistics are those of the selected attempt, untouched by the stage.
UQCollaborators == {"jacobianest", "_augment:288", "hccm", "uqst"}
C8_UQSkipped ==
    /\ ~uqanalysis =>
          /\ called \cap UQCollaborators = {}
          /\ pc \in {"stats", "done"} => paramuq = EmptyList
          /\ pc = "done" => ret.paramuq = EmptyList
    /\ pc = "done" =>
          /\ ret.returned
          /\ ret.nonlinfit = nonlinfits[globmin]
          /\ ret.linfit = linfits[globmin]
          /\ ret.stats = goodness_of_fit(
                 ModelFit(nonlinfits[globmin], linfits[globmin]),
                 NumData - Len(nonlinfits[globmin]))
          /\ uqanalysis => ret.paramuq.type = "uq"

\* C8 witness: a two-start fit was returned without UQ.
C8_Witness ==
    /\ pc = "done" /\ ~uqanalysis /\ Len(fvals) = 2
    /\ ret.paramuq = EmptyList

\* C9 (as claimed): an attempt whose solver used up its budget without
\* meeting a tolerance (status 0) makes snlls fail.
C9_Claimed ==
    sol.status = 0 => (pc = "raised" /\ err = "SolverNonconvergence")

\* C9 (amended): such an attempt raises nothing; its x, snapshot and cost
\* are appended like any other attempt's, and when it has the least cost it
\* is the fit that is returned.
C9_BudgetExhaustedAccepted ==
    sol.status = 0 =>
      /\ err # "SolverNonconvergence"
      /\ pc = "loop" => err = "none"
      /\ Len(fvals) >= sol.k
      /\ fvals[sol.k] = sol.cost /\ nonlinfits[sol.k] = sol.x
      /\ (pc = "done" /\ globmin = sol.k) =>
            (ret.returned /\ ret.nonlinfit = sol.x)

\* C9 witness: the returned fit is an attempt that ran out of budget.
C9_Witness ==
    /\ pc = "done" /\ ret.returned
    /\ sol.status = 0 /\ globmin = sol.k

\* C10 (as claimed): an unknown penalty type, or an unknown solver name on a
\* non-negative-only linear problem, ends the call with the configuration
\* error during setup, before the residual function is evaluated.
C10_Claimed ==
    LET unknownSolver ==
            /\ NonNegativeOnly(lbl, ubl)
            /\ nnlsSolver.str \notin {"fnnls", "nnlsbpp", "cvx"}
        unknownPenalty == regtype.str \notin {"tikhonov", "tv", "huber"}
    IN  (pc \notin {"start", "bounds", "linear"} /\ ~ValidationError
            /\ (unknownSolver \/ unknownPenalty)) =>
          /\ pc = "raised" /\ err = "ConfigurationError"
          /\ "ResidualsFcn" \notin called

\* C11 (as claimed): where _augment ran with alpha = 0 its residual is the
\* plain data residual, entry for entry; and in a run without penalty the
\* covariance estimator is handed the data residual (N entries) and the
\* data Jacobian (N rows), with no penalty rows below them.
UQRan == pc \in {"stats", "done"} /\ uqanalysis
C11_Claimed ==
    /\ (UQRan /\ paramuq.alpha = 0) => covmatrix.res = WeightedResidual
    /\ (UQRan /\ ~Truthy(includePenalty)) =>
          /\ covmatrix.res = WeightedResidual
          /\ covmatrix.J = DataJacobian
          /\ Len(covmatrix.res) = NumData /\ Len(covmatrix.J) = NumData

\* C12 (as claimed): whenever an attempt is about to start, the evaluator's
\* cache is in its reset state (caching off, no previous vector, no cached
\* alpha); and the first evaluation of every attempt, when alpha is
\* method-driven, calls the selection procedure for the attempt's start
\* vector.
AttemptAboutToStart == pc = "loop" /\ Len(fvals) < Len(multiStartPar0)
FirstEvaluationDone == pc = "solving" /\ sol.nfev = 1 /\ sol.jac = 1
MethodDriven == Truthy(includePenalty) /\ regparam.isstr
C12_Claimed ==
    /\ AttemptAboutToStart =>
          /\ check = FALSE /\ regparam_prev = 0
          /\ par_prev = Fill(Len(par0), 0)
    /\ (FirstEvaluationDone /\ MethodDriven) =>
          (origin.selected /\ origin.at = sol.x)

\* A step in which ResidualsFcn was called (a step of LeastSquaresStart,
\* LeastSquaresJac or LeastSquaresTrial that reached the callback), with a
\* penalty included and alpha method-driven; par_prev' is then the vector p
\* it was called with.
MethodDrivenEvaluation ==
    /\ pc \in {"loop", "solving"} /\ pc' \in {"solving", "raised"}
    /\ err' # "ValueError"
    /\ MethodDriven

\* C13 (as claimed): in such an evaluation the cached alpha is reused, and
\* selregparam not called, exactly when caching is active and every
\* component of p is positive with |par_prev[i] - p[i]| / p[i] below
\* alphaOptThreshold; in every other case (a negative or zero component
\* included) selregparam is called and its result cached.
C13_Claimed ==
    [][MethodDrivenEvaluation =>
         LET p == par_prev'
             small == \A i \in 1..Len(p) :
                         /\ p[i] > 0
                         /\ Abs(par_prev[i] - p[i]) * ThresholdDen < p[i]
         IN  /\ ~origin'.selected <=> (check /\ small)
             /\ ~origin'.selected => regparam_prev' = regparam_prev
             /\ origin'.selected =>
                   (regparam_prev' = selregparam(p) /\ check')]_vars

\* The cached alpha was reused in the last evaluation, at the vector
\* par_prev.
ReusedAtParPrev ==
    /\ pc = "solving" /\ MethodDriven
    /\ ~origin.selected /\ origin.at # << >>
\* every component of p is within alphaOptThreshold, relative to p, of q
Within(q, p) ==
    \A i \in 1..Len(p) : Abs(q[i] - p[i]) * ThresholdDen < Abs(p[i])

\* C14 (as claimed): whenever the cached alpha is reused at p, every
\* component of p is within alphaOptThreshold of the vector for which that
\* alpha was selected.
C14_Claimed == ReusedAtParPrev => Within(origin.at, par_prev)

\* C14 (amended): whenever the cached alpha is reused at p, caching is
\* active and every positive component of p is within alphaOptThreshold of
\* the vector of the evaluation just before (a negative component is not
\* tested); alpha and the vector it was selected for stay as they were.
C14_ReuseNearPreviousCall ==
    [][(MethodDrivenEvaluation /\ ~origin'.selected) =>
         LET p == par_prev'
         IN  /\ check
             /\ \A i \in 1..Len(p) :
                   p[i] >= 0 =>
                     Abs(par_prev[i] - p[i]) * ThresholdDen < p[i]
             /\ regparam_prev' = regparam_prev
             /\ origin'.at = origin.at]_vars

\* C14 witness: alpha was selected at 2002 and, after the evaluation at
\* 2001, reused at 2000, which is not within the threshold of 2002.
C14_Witness ==
    /\ ReusedAtParPrev
    /\ \A i \in 1..Len(par_prev) : par_prev[i] > 0
    /\ ~Within(origin.at, par_prev)

\* C15 (as claimed): the vector an evaluation returns is, with a penalty,
\* the data residual (N entries) followed by one penalty block of rows(L)
\* entries, that of _augment (alpha*L@x for tikhonov); without a penalty it
\* is the data residual alone.
C15_Claimed ==
    (pc = "solving" /\ res # << >>) =>
      IF Truthy(includePenalty)
      THEN /\ Len(res) = NumData + L.rows
           /\ SubSeq(res, 1, NumData) = DataResidual
           /\ \A i \in 1..L.rows :
                 /\ res[NumData + i].row = i
                 /\ res[NumData + i].scale = linfit[1].alpha
                 /\ Is(regtype, "tikhonov") => res[NumData + i].term = "L@x"
      ELSE res = DataResidual /\ Len(res) = NumData

\* C16: _augment puts the penalty residual, rows(L) entries scaled by alpha,
\* below the residual it is given; given a Jacobian it puts below it rows(L)
\* rows whose first W columns are zero and whose last M columns are the
\* penalty Jacobian scaled by alpha, every row having W + M columns; given
\* no Jacobian it returns the Jacobian empty.  Checked on both calls of
\* the program: line 247 (no Jacobian) and line 288 (Jacobian).
AugmentedBelow(out, in, alpha) ==
    /\ Len(out) = Len(in) + L.rows
    /\ SubSeq(out, 1, Len(in)) = in
    /\ \A i \in 1..L.rows :
          out[Len(in) + i] = ResEntry(PenaltyTerm(regtype), alpha, i)
C16_Augment ==
    /\ (pc = "solving" /\ res # << >> /\ Truthy(includePenalty)) =>
          LET alpha == linfit[1].alpha
              in == DataResidual \o PenaltyBlock(alpha)
          IN  /\ AugmentedBelow(res, in, alpha)
              /\ _augment(in, << >>, regtype, alpha, L, linfit, huberparam,
                          Nnonlin).J = << >>
    /\ UQRan =>
          LET J == covmatrix.J
              W == Nnonlin
              M == Nlin
          IN  /\ AugmentedBelow(covmatrix.res, WeightedResidual,
                                paramuq.alpha)
              /\ Len(J) = NumData + L.rows
              /\ SubSeq(J, 1, NumData) = DataJacobian
              /\ \A i \in 1..Len(J) : Len(J[i]) = W + M
              /\ \A i \in 1..L.rows :
                    /\ \A c \in 1..W : J[NumData + i][c].term = "zeros"
                    /\ \A c \in 1..M :
                          J[NumData + i][W + c] =
                            JacEntry(PenaltyJacTerm(regtype), paramuq.alpha,
                                     i, c)

\* C16 witness: a fit with two non-linear parameters and a penalty went
\* through both calls.
C16_Witness ==
    /\ pc = "done" /\ Truthy(includePenalty)
    /\ "_augment:247" \in called /\ "_augment:288" \in called
    /\ Nnonlin = 2 /\ Len(covmatrix.J) = NumData + L.rows

\* C17 (as claimed): the UQ stage does not call selregparam, and the alpha it
\* augments with is the alpha of the last residual evaluation of the attempt
\* selected as the global minimum (the alpha of that attempt's linear
\* snapshot), whether or not that attempt ran last.
C17_Claimed ==
    [][UncertaintyAnalysis =>
         /\ ("selregparam" \in called') => ("selregparam" \in called)
         /\ origin' = origin
         /\ paramuq'.type = "uq" =>
               /\ paramuq'.alpha = linfits[globmin][1].alpha
               /\ \A i \in 1..L.rows :
                     covmatrix'.res[NumData + i].scale
                        = linfits[globmin][1].alpha]_vars

\* C18 (as claimed): once the bounds are validated the linear solver is
\* fixed by (lbl, ubl): the direct solve when every lbl and ubl is infinite,
\* the non-negative solver named by nnlsSolver when every lbl is 0 and every
\* ubl infinite, lsq_linear otherwise; being a function of the arguments it
\* is the same in every evaluation of every attempt.
NnlsBackend(name) ==
    IF name = "fnnls" THEN "fnnls"
    ELSE IF name = "nnlsbpp" THEN "nnlsbpp"
    ELSE IF name = "cvx" THEN "cvxnnls"
    ELSE "none"
C18_Claimed ==
    (pc \notin {"start", "bounds", "linear"} /\ ~ValidationError) =>
      LET allInfinite == \A i \in 1..Nlin : isinf(lbl[i]) /\ isinf(ubl[i])
          nonNegative == \A i \in 1..Nlin : lbl[i] = 0 /\ isinf(ubl[i])
      IN  /\ allInfinite => linSolver = "solve"
          /\ nonNegative =>
                /\ linSolver \in {"fnnls", "nnlsbpp", "cvxnnls"}
                /\ linSolver = NnlsBackend(nnlsSolver.str)
          /\ (~allInfinite /\ ~nonNegative) => linSolver = "lsq_linear"

\* C19: with a fixed scalar regparam and a penalty, selregparam is never
\* called and every evaluation uses that scalar as alpha (in the linear
\* solve, in the penalty rows, in the cache); without a penalty selregparam
\* is never called, alpha is 0 in every evaluation and check, par_prev and
\* regparam_prev stay as lines 193-195 set them.
Evaluated == pc = "solving" /\ res # << >>
C19_FixedOrNoPenalty ==
    /\ (Truthy(includePenalty) /\ ~regparam.isstr) =>
          /\ "selregparam" \notin called /\ ~origin.selected
          /\ Evaluated =>
                /\ regparam_prev = regparam.value
                /\ \A k \in 1..Len(linfit) : linfit[k].alpha = regparam.value
                /\ \A i \in (NumData + 1)..Len(res) :
                      res[i].scale = regparam.value
    /\ (PastSetup /\ ~ValidationError /\ ~Truthy(includePenalty)) =>
          /\ "selregparam" \notin called /\ ~origin.selected
          /\ check = FALSE /\ regparam_prev = 0
          /\ par_prev = Fill(Len(par0), 0)
          /\ Evaluated => \A k \in 1..Len(linfit) : linfit[k].alpha = 0

\* C19 witness: a trial point was evaluated with the fixed scalar.
C19_Witness ==
    /\ Evaluated /\ sol.nfev >= 2
    /\ Truthy(includePenalty) /\ ~regparam.isstr
    /\ regparam_prev = regparam.value

====
